---------------------------- MODULE Spec2Model ----------------------------
(***************************************************************************)
(* A model of the hf-papers-zh-tw daily pipeline.                          *)
(*                                                                         *)
(*   SpecPdf   parse_pdf (src/src/parse_pdf.py): the page loop, the OCR    *)
(*             call with its fallback, the element loop, figure naming.    *)
(*   SpecRun   run and process_paper (src/src/main.py): the worker pool,   *)
(*             the collection of the futures, site build and email.        *)
(*   SpecFig   _insert_pdf_figures_inline (src/src/build_site.py).         *)
(*   SpecCache the cached stages and their cache files.                    *)
(*   SpecHtml  the figure loop of parse_arxiv_html.                        *)
(*   SpecWorkers  the workers of the pool and the files they write.        *)
(*   SpecBatch the batching loop of translate_paper_content.               *)
(*   SpecCrop  _crop_image.                                                *)
(*   SpecRunLive  SpecRun, run to its end.                                 *)
(*                                                                         *)
(* Every specification gives all variables a value; the variables of the   *)
(* parts it does not exercise stay at their idle values.                   *)
(***************************************************************************)
EXTENDS Integers, Sequences, FiniteSets, TLC

VARIABLES
    \* ---- parse_pdf ----
    pdf_pc,          \* position in parse_pdf: idle, call, page, elem, done, raised
    n_pages,         \* len(doc)
    page_num,        \* the loop variable of the page loop (0-based)
    raw_src,         \* where raw_elements of the current page came from
    raw_left,        \* raw records of the current page not yet iterated
    all_elements,    \* the list parse_pdf builds
    fig_count,       \* the document-wide figure counter
    parsed_json,     \* the cache file parsed.json (NoFile when absent)
    pdf_ret,         \* the value parse_pdf returned
    ocr_result,      \* per page: pending, returned or raised (history)
    fallback_calls,  \* per page: calls of _fallback_parse_page (history)
    crop_failures,   \* figure crops that raised (history)
    raw_total,       \* raw records handed to the element loop so far
    elem_category,   \* per element: the category of its raw record (history)
    headers_seen,    \* Page-header / Page-footer records iterated (history)
    ocr_payload,     \* per page: what _call_dotsocr made of the answer (history)
    \* ---- run ----
    run_pc,          \* position in run: idle, fetch, pool, email, done, exit, raised
    run_error,       \* the step whose exception left run (NoKey when none)
    papers,          \* the list fetch_daily_papers returned
    tasks,           \* per paper index: the future of its process_paper call
    collected,       \* indices whose future as_completed has yielded
    enriched,        \* the list run fills by index
    built_with,      \* the list build_site was called with (history)
    mailed_with,     \* the list send_daily_digest was called with (history)
    email_failed,    \* send_daily_digest raised and run caught it (history)
    \* ---- _insert_pdf_figures_inline ----
    fig_pc,          \* idle, call, done
    content_html,    \* the argument content_html: a sequence of paragraphs
    figures,         \* the argument figures: a list of figure dicts
    fig_out,         \* the returned content_html
    \* ---- the cached stages, for one (date, arxiv id) ----
    cache_files,     \* per stage: its cache file
    prev_ret,        \* per stage: what its latest returned call returned
    last_call,       \* the latest call: stage, outcome, remote calls made
    \* ---- the figure loop of parse_arxiv_html ----
    html_pc,         \* idle, loop, done
    html_tags,       \* the <figure> tags of the article not yet visited
    html_figures,    \* the list figures
    html_files,      \* the files written under figures_dir (history)
    \* ---- the batching loop of translate_paper_content ----
    tr_pc,           \* idle, loop, flush, done
    tr_elements,     \* the argument elements: type and len(text) of each
    tr_i,            \* translatable elements visited so far
    batch_indices,   \* the batch being built
    batch_chars,     \* its accumulated character count
    tr_batches,      \* the batches sent to _translate_batch (history)
    \* ---- _crop_image ----
    crop_pc,         \* idle, call, done
    crop_bbox,       \* the argument bbox
    crop_size,       \* (w, h) of the page image
    crop_box,        \* the rectangle handed to img.crop, or the full page
    \* ---- the workers of the pool and the files of the data directory ----
    wk_ids,          \* the arxiv ids of the listing, by index
    wk_pc,           \* per index: the stage its process_paper call is in
    wk_busy,         \* per index: past the exists() test, before the write
    wk_writes,       \* per index: the paths its worker has written (history)
    disk             \* the paths that exist under DATA_DIR / date_str

pdfVars == <<pdf_pc, n_pages, page_num, raw_src, raw_left, all_elements,
             fig_count, parsed_json, pdf_ret, ocr_result, fallback_calls,
             crop_failures, raw_total, elem_category, headers_seen,
             ocr_payload>>

runVars == <<run_pc, run_error, papers, tasks, collected, enriched,
             built_with, mailed_with, email_failed>>

figVars == <<fig_pc, content_html, figures, fig_out>>

cacheVars == <<cache_files, prev_ret, last_call>>

htmlVars == <<html_pc, html_tags, html_figures, html_files>>

batchVars == <<tr_pc, tr_elements, tr_i, batch_indices, batch_chars,
               tr_batches>>

cropVars == <<crop_pc, crop_bbox, crop_size, crop_box>>

workerVars == <<wk_ids, wk_pc, wk_busy, wk_writes, disk>>

pureVars == <<htmlVars, batchVars, cropVars, workerVars>>

vars == <<pdfVars, runVars, figVars, cacheVars, pureVars>>

nonPdfVars == <<runVars, figVars, cacheVars, pureVars>>
nonRunVars == <<pdfVars, figVars, cacheVars, pureVars>>
nonFigVars == <<pdfVars, runVars, cacheVars, pureVars>>
nonCacheVars == <<pdfVars, runVars, figVars, pureVars>>
nonHtmlVars == <<pdfVars, runVars, figVars, cacheVars, batchVars, cropVars,
                 workerVars>>
nonBatchVars == <<pdfVars, runVars, figVars, cacheVars, htmlVars, cropVars,
                  workerVars>>
nonCropVars == <<pdfVars, runVars, figVars, cacheVars, htmlVars, batchVars,
                 workerVars>>
nonWorkerVars == <<pdfVars, runVars, figVars, cacheVars, htmlVars, batchVars,
                   cropVars>>

NoKey   == "NoKey"
PyNone  == "None"

\* a path of the data directory: no file there, or a file and its content
NoFile        == [exists |-> FALSE]
File(content) == [exists |-> TRUE, content |-> content]

\* what a call has returned so far
NotReturned == [returned |-> FALSE]
Returned(v) == [returned |-> TRUE, value |-> v]

\* what a collaborator has been called with so far
NotCalled    == [called |-> FALSE]
Called(args) == [called |-> TRUE, args |-> args]

(***************************************************************************)
(* Bounds of the model.                                                    *)
(***************************************************************************)
MaxPages == 2
MaxRaw   == 3
MaxPapers == 2
MaxParas == 3
MaxFigs  == 2

(***************************************************************************)
(* Small helpers for Python values.                                        *)
(***************************************************************************)
Max(a, b) == IF a >= b THEN a ELSE b
Min(a, b) == IF a <= b THEN a ELSE b

DigitStr == <<"0", "1", "2", "3", "4", "5", "6", "7", "8", "9">>

\* str(n) of a non-negative integer, one token per decimal digit
RECURSIVE Digits(_)
Digits(n) ==
    IF n < 10 THEN <<DigitStr[n + 1]>>
    ELSE Digits(n \div 10) \o <<DigitStr[(n % 10) + 1]>>

\* json.dumps / json.loads of a JSON-native value (lists, dicts with string
\* keys, strings, numbers, booleans): the file holds the text, tagged so.
json_dumps(v) == [json |-> v]
json_loads(f) == f.json

\* str.strip() on the sample texts
Strip(t) ==
    CASE t = " "   -> ""
      [] t = " t " -> "t"
      [] OTHER     -> t

(***************************************************************************)
(* parse_pdf.py                                                            *)
(***************************************************************************)
Categories == {"Title", "Section-header", "Text", "Table", "Formula",
               "Caption", "Footnote", "List-item", "Page-header",
               "Page-footer", "Picture"}

\* a map that keeps the page headers as text
CategoryTypeMapKeepsHeaders(category) ==
    IF category \in {"Page-header", "Page-footer", "Text"} THEN "text"
    ELSE "title"

\* CATEGORY_TYPE_MAP.get(category): None for the skipped and unknown ones
CATEGORY_TYPE_MAP(category) ==
    CASE category = "Title"          -> "title"
      [] category = "Section-header" -> "section"
      [] category = "Text"           -> "text"
      [] category = "Table"          -> "table"
      [] category = "Formula"        -> "formula"
      [] category = "Caption"        -> "caption"
      [] category = "Footnote"       -> "footnote"
      [] category = "List-item"      -> "text"
      [] category = "Page-header"    -> PyNone
      [] category = "Page-footer"    -> PyNone
      [] category = "Picture"        -> "image"
      [] OTHER                       -> PyNone

\* What the OCR service may put in its list: dicts with or without a
\* category, a bbox and a text, and entries that are no dict at all.
OcrRecords ==
    [origin : {"ocr"}, isdict : {TRUE},
     category : Categories \cup {"Unknown", NoKey},
     bbox : {NoKey, "empty", "box"},
     text : {NoKey, "", " ", " t ", PyNone}]
    \cup
    {[origin |-> "ocr", isdict |-> FALSE, category |-> NoKey,
      bbox |-> NoKey, text |-> NoKey]}

\* _fallback_parse_page: text blocks with non-empty stripped text
FallbackRecords ==
    {[origin |-> "fallback", isdict |-> TRUE, category |-> "Text",
      bbox |-> "box", text |-> "t"]}

\* What the OCR request may end in: an API error, a message with no
\* content, or a content that is a JSON list, a JSON object with or
\* without "elements", another JSON value, or no JSON at all, with or
\* without a parsable [...] inside.
OcrResponses ==
    {"api_error", "content_none", "json_list", "json_object_elements",
     "json_object_other", "json_scalar", "text_with_array",
     "text_with_bad_array", "text_no_array"}

\* _call_dotsocr: raises, returns the elements of the payload, or returns
\* [] because no payload could be recovered
CallDotsOcr(response) ==
    CASE response \in {"api_error", "content_none"} ->
            [status |-> "raised", payload |-> "raised"]
      [] response \in {"json_list", "json_object_elements",
                       "text_with_array"} ->
            [status |-> "returned", payload |-> "elements"]
      [] OTHER ->
            [status |-> "returned", payload |-> "unrecoverable"]

\* the try/except around _call_dotsocr: which list becomes raw_elements
RawSourceEmptyMeansFallback(outcome, n_ocr) ==
    IF outcome = "raised" \/ n_ocr = 0 THEN "fallback" ELSE "ocr"

RawSource(outcome, n_ocr) ==
    IF outcome = "raised" THEN "fallback" ELSE "ocr"

RawRecords(src) == IF src = "ocr" THEN OcrRecords ELSE FallbackRecords

\* f"p{page_num + 1}_fig{fig_count}.png"
FigNameNoCount(page, n) ==
    <<"p">> \o Digits(page) \o <<"_", "fig">> \o <<".", "png">>

FigName(page, n) ==
    <<"p">> \o Digits(page) \o <<"_", "fig">> \o Digits(n) \o <<".", "png">>

\* elem.get("category", "Text")
GetCategory(rec) == IF rec.category = NoKey THEN "Text" ELSE rec.category

\* `not bbox`: a missing or empty bbox
BboxFalsy(rec) == rec.bbox \in {NoKey, "empty"}

\* elem.get("text", "")
GetText(rec) == IF rec.text = NoKey THEN "" ELSE rec.text

ImageElement(name, page, origin) ==
    [type |-> "image", fig_name |-> name, page |-> page, origin |-> origin]

TextElement(type, text, page, origin) ==
    [type |-> type, text |-> text, page |-> page, origin |-> origin]

RunIdle ==
    /\ run_pc = "idle" /\ run_error = NoKey /\ papers = <<>> /\ tasks = <<>>
    /\ collected = {} /\ enriched = <<>>
    /\ built_with = NotCalled /\ mailed_with = NotCalled
    /\ email_failed = FALSE

NoCall == [stage |-> "none"]

CacheIdle ==
    /\ cache_files = <<>> /\ prev_ret = <<>> /\ last_call = NoCall

HtmlIdle ==
    /\ html_pc = "idle" /\ html_tags = <<>> /\ html_figures = <<>>
    /\ html_files = {}

BatchIdle ==
    /\ tr_pc = "idle" /\ tr_elements = <<>> /\ tr_i = 0
    /\ batch_indices = <<>> /\ batch_chars = 0 /\ tr_batches = <<>>

CropIdle ==
    /\ crop_pc = "idle" /\ crop_bbox = <<>> /\ crop_size = <<>>
    /\ crop_box = <<>>

WorkersIdle ==
    /\ wk_ids = <<>> /\ wk_pc = <<>> /\ wk_busy = <<>> /\ wk_writes = <<>>
    /\ disk = {}

FigIdle ==
    /\ fig_pc = "idle" /\ content_html = <<>> /\ figures = <<>>
    /\ fig_out = <<>>

PdfIdle ==
    /\ pdf_pc = "idle" /\ n_pages = 0 /\ page_num = 0 /\ raw_src = NoKey
    /\ raw_left = 0 /\ all_elements = <<>> /\ fig_count = 0
    /\ parsed_json = NoFile /\ pdf_ret = NotReturned
    /\ ocr_result = <<>> /\ fallback_calls = <<>> /\ crop_failures = 0
    /\ raw_total = 0 /\ elem_category = <<>> /\ headers_seen = 0
    /\ ocr_payload = <<>>

\* a call of parse_pdf on a document of n_pages pages, with or without a
\* parsed.json left by an earlier run
InitPdf ==
    /\ pdf_pc = "call"
    /\ n_pages \in 0..MaxPages
    /\ page_num = 0
    /\ raw_src = NoKey
    /\ raw_left = 0
    /\ all_elements = <<>>
    /\ fig_count = 0
    /\ parsed_json \in {NoFile, File(json_dumps(<<>>)),
                        File(json_dumps(<<TextElement("text", "t", 1, "ocr")>>))}
    /\ pdf_ret = NotReturned
    /\ ocr_result = [p \in 1..n_pages |-> "pending"]
    /\ fallback_calls = [p \in 1..n_pages |-> 0]
    /\ crop_failures = 0
    /\ raw_total = 0
    /\ elem_category = <<>>
    /\ headers_seen = 0
    /\ ocr_payload = [p \in 1..n_pages |-> "pending"]
    /\ RunIdle
    /\ FigIdle
    /\ CacheIdle
    /\ HtmlIdle
    /\ BatchIdle
    /\ CropIdle
    /\ WorkersIdle

\* lines 108-111: the cache file exists
PdfCacheHit ==
    /\ pdf_pc = "call"
    /\ parsed_json # NoFile
    /\ pdf_ret' = Returned(json_loads(parsed_json.content))
    /\ pdf_pc' = "done"
    /\ UNCHANGED <<ocr_payload, elem_category, headers_seen, raw_total,
                   n_pages, page_num, raw_src, raw_left, all_elements,
                   fig_count, parsed_json, ocr_result, fallback_calls,
                   crop_failures>>
    /\ UNCHANGED nonPdfVars

\* lines 113-120: no cache file; open the document
PdfOpen ==
    /\ pdf_pc = "call"
    /\ parsed_json = NoFile
    /\ all_elements' = <<>>
    /\ fig_count' = 0
    /\ page_num' = 0
    /\ pdf_pc' = "page"
    /\ UNCHANGED <<ocr_payload, elem_category, headers_seen, raw_total,
                   n_pages, raw_src, raw_left, parsed_json, pdf_ret,
                   ocr_result, fallback_calls, crop_failures>>
    /\ UNCHANGED nonPdfVars

\* lines 122-131: render the page, call the OCR service, fall back when
\* the call raises.  n_ocr and n_fb are the lengths of the two lists.
PdfPage ==
    /\ pdf_pc = "page"
    /\ page_num < n_pages
    /\ \E call \in {CallDotsOcr(response) : response \in OcrResponses},
          n_ocr \in 0..(MaxRaw - raw_total),
          n_fb \in 0..(MaxRaw - raw_total) :
          LET outcome == call.status
              src     == RawSource(outcome, n_ocr)
              n       == IF src = "ocr" THEN n_ocr ELSE n_fb
          IN  /\ call.payload # "elements" => n_ocr = 0
              /\ ocr_payload' =
                    [ocr_payload EXCEPT ![page_num + 1] = call.payload]
              /\ src = "ocr" => n_fb = 0
              /\ raw_src' = src
              /\ raw_left' = n
              /\ raw_total' = raw_total + n
              /\ ocr_result' = [ocr_result EXCEPT ![page_num + 1] = outcome]
              /\ fallback_calls' =
                    [fallback_calls EXCEPT ![page_num + 1] =
                        @ + (IF src = "fallback" THEN 1 ELSE 0)]
    /\ pdf_pc' = "elem"
    /\ UNCHANGED <<elem_category, headers_seen, n_pages, page_num, all_elements, fig_count, parsed_json,
                   pdf_ret, crop_failures>>
    /\ UNCHANGED nonPdfVars

\* lines 133-167: one iteration of `for elem in raw_elements`
PdfElem ==
    /\ pdf_pc = "elem"
    /\ raw_left > 0
    /\ \E rec \in RawRecords(raw_src) :
       \E crop_ok \in IF CATEGORY_TYPE_MAP(GetCategory(rec)) = "image"
                       THEN BOOLEAN ELSE {TRUE} :
          LET elem_type == CATEGORY_TYPE_MAP(GetCategory(rec))
              page      == page_num + 1
          IN
          /\
                IF ~rec.isdict \/ elem_type = PyNone
                THEN \* continue: malformed element, header, footer, unknown
                     /\ pdf_pc' = "elem"
                     /\ UNCHANGED <<all_elements, fig_count, crop_failures>>
                ELSE IF elem_type = "image"
                THEN IF BboxFalsy(rec)
                     THEN /\ pdf_pc' = "elem"
                          /\ UNCHANGED <<all_elements, fig_count, crop_failures>>
                     ELSE /\ fig_count' = fig_count + 1
                          /\ pdf_pc' = "elem"
                          /\ IF crop_ok
                             THEN /\ all_elements' = Append(all_elements,
                                       ImageElement(FigName(page, fig_count + 1),
                                                    page, rec.origin))
                                  /\ UNCHANGED crop_failures
                             ELSE /\ crop_failures' = crop_failures + 1
                                  /\ UNCHANGED all_elements
                ELSE IF GetText(rec) = PyNone
                THEN \* None has no strip(): AttributeError leaves parse_pdf
                     /\ pdf_pc' = "raised"
                     /\ UNCHANGED <<all_elements, fig_count, crop_failures>>
                ELSE IF Strip(GetText(rec)) = ""
                THEN /\ pdf_pc' = "elem"
                     /\ UNCHANGED <<all_elements, fig_count, crop_failures>>
                ELSE /\ all_elements' = Append(all_elements,
                          TextElement(elem_type, Strip(GetText(rec)), page,
                                      rec.origin))
                     /\ pdf_pc' = "elem"
                     /\ UNCHANGED <<fig_count, crop_failures>>
          /\ elem_category' =
                IF Len(all_elements') > Len(all_elements)
                THEN Append(elem_category, GetCategory(rec))
                ELSE elem_category
          /\ headers_seen' =
                IF rec.isdict
                   /\ GetCategory(rec) \in {"Page-header", "Page-footer"}
                THEN headers_seen + 1 ELSE headers_seen
    /\ raw_left' = raw_left - 1
    /\ UNCHANGED <<ocr_payload, raw_total, n_pages, page_num, raw_src,
                   parsed_json, pdf_ret,
                   ocr_result, fallback_calls>>
    /\ UNCHANGED nonPdfVars

\* the element loop is exhausted: next page
PdfNextPage ==
    /\ pdf_pc = "elem"
    /\ raw_left = 0
    /\ page_num' = page_num + 1
    /\ pdf_pc' = "page"
    /\ UNCHANGED <<ocr_payload, elem_category, headers_seen, raw_total,
                   n_pages, raw_src, raw_left, all_elements, fig_count,
                   parsed_json, pdf_ret, ocr_result, fallback_calls,
                   crop_failures>>
    /\ UNCHANGED nonPdfVars

\* lines 169-173: write parsed.json and return
PdfFinish ==
    /\ pdf_pc = "page"
    /\ page_num = n_pages
    /\ parsed_json' = File(json_dumps(all_elements))
    /\ pdf_ret' = Returned(all_elements)
    /\ pdf_pc' = "done"
    /\ UNCHANGED <<ocr_payload, elem_category, headers_seen, raw_total,
                   n_pages, page_num, raw_src, raw_left, all_elements,
                   fig_count, ocr_result, fallback_calls, crop_failures>>
    /\ UNCHANGED nonPdfVars

NextPdf ==
    \/ PdfCacheHit
    \/ PdfOpen
    \/ PdfPage
    \/ PdfElem
    \/ PdfNextPage
    \/ PdfFinish

SpecPdf == InitPdf /\ [][NextPdf]_vars

(***************************************************************************)
(* Properties of parse_pdf (checked under SpecPdf).                        *)
(***************************************************************************)
ElementsOfPage(p) ==
    {i \in 1..Len(all_elements) : all_elements[i].page = p}

ImageIndices == {i \in 1..Len(all_elements) : all_elements[i].type = "image"}

\* C1: for every page, when the OCR call returned the page's elements come
\* only from the OCR output and the fallback extractor was not invoked for
\* it; when the OCR call raised they come only from the fallback extractor
\* (invoked once); a page never contributes elements from both sources.
C1_OcrXorFallback ==
    \A p \in 1..n_pages :
        /\ ocr_result[p] = "pending" =>
              /\ ElementsOfPage(p) = {}
              /\ fallback_calls[p] = 0
        /\ ocr_result[p] = "returned" =>
              /\ fallback_calls[p] = 0
              /\ \A i \in ElementsOfPage(p) : all_elements[i].origin = "ocr"
        /\ ocr_result[p] = "raised" =>
              /\ fallback_calls[p] = 1
              /\ \A i \in ElementsOfPage(p) :
                    all_elements[i].origin = "fallback"

\* a finished document with a page read by OCR and a page read by fallback
C1_Witness ==
    /\ pdf_pc = "done"
    /\ \E p, q \in 1..n_pages :
          /\ ocr_result[p] = "returned"
          /\ ocr_result[q] = "raised"
          /\ \E i \in ElementsOfPage(p) : all_elements[i].origin = "ocr"
          /\ \E j \in ElementsOfPage(q) : all_elements[j].origin = "fallback"

\* C10: the figure filenames of the image elements parse_pdf produces are
\* pairwise distinct within the document, also when a crop failed and its
\* number was skipped.
C10_FigNamesDistinct ==
    \A i, j \in ImageIndices :
        i # j => all_elements[i].fig_name # all_elements[j].fig_name

\* two figures were written around a figure whose crop failed
C10_Witness ==
    /\ pdf_pc = "done"
    /\ crop_failures > 0
    /\ \E i, j \in ImageIndices :
          /\ i < j
          /\ all_elements[i].fig_name = FigName(1, 1)
          /\ all_elements[j].fig_name = FigName(all_elements[j].page, 3)

(***************************************************************************)
(* main.py: process_paper and run                                          *)
(***************************************************************************)
\* ThreadPoolExecutor(max_workers=3)
MaxWorkers == 3

PaperIdSeq == <<"2401.00001", "2401.00002">>

PaperIds == {PaperIdSeq[k] : k \in 1..Len(PaperIdSeq)}

\* Ids are only ever compared for equality, so listings are taken up to a
\* renaming of the ids: an id appears only after the ids before it did.
InOrderOfFirstUse(f, n) ==
    \A i \in 1..n : \A k \in 1..Len(PaperIdSeq) :
        f[i] = PaperIdSeq[k] =>
            \A m \in 1..(k - 1) : \E j \in 1..(i - 1) : f[j] = PaperIdSeq[m]

MetaKeys == {"abstract_zh", "title_zh", "tags"}

\* The dict fetch_daily_papers builds for the listing item at position i.
\* title stands for the item's own fields (title, abstract, authors, ...):
\* it tells the items of one listing apart.  keys holds the keys that
\* process_paper has added to the dict so far.
ListedPaper(id, i) ==
    [arxiv_id |-> id, title |-> i, keys |-> {},
     abstract_zh |-> "", title_zh |-> "", tags |-> "",
     content_md_zh |-> <<>>, figures |-> <<>>, parse_source |-> ""]

\* the lists the listing source can return: ids repeated or not
PaperLists ==
    UNION {{[i \in 1..n |-> ListedPaper(f[i], i)] :
                f \in {g \in [1..n -> PaperIds] : InOrderOfFirstUse(g, n)}}
           : n \in 0..MaxPapers}

\* enriched: list[dict] = [None] * len(papers)
NoEntry == [isnone |-> TRUE]

\* What the collaborators of one process_paper call do: the translation
\* and tagging services answer or fail, the HTML mirror yields a document
\* with a body, one with no body, no document, or parse_arxiv_html raises;
\* download_pdf yields a path or None; parse_pdf returns its list or raises.
Envs ==
    [abs_ok : BOOLEAN, title_ok : BOOLEAN, tags_ok : BOOLEAN,
     html : {"dict", "empty", "none", "raises"},
     pdf : {"path", "none"}, parse : {"list", "raises"},
     tr_ok : BOOLEAN]

\* translate_abstract returned (or abstract_zh.txt was read), else ""
AbstractZh(ok) == IF ok THEN "abstract_zh" ELSE ""

\* translate_title returned (or title_zh.txt was read), else ""
TitleZh(ok) == IF ok THEN "title_zh" ELSE ""

\* generate_tags returned, else the empty default tags
Tags(ok) == IF ok THEN "tags" ELSE "default_tags"

\* translate_markdown(markdown, arxiv_id, date_str), when it returns
translate_markdown(markdown) == <<"zh", markdown>>

\* _translate_paper_meta: always sets the three keys
TranslatePaperMeta(paper, env) ==
    [paper EXCEPT !.keys = @ \cup MetaKeys,
                  !.abstract_zh = AbstractZh(env.abs_ok),
                  !.title_zh = TitleZh(env.title_ok),
                  !.tags = Tags(env.tags_ok)]

\* parse_arxiv_html's return value
ParsedHtml(env) ==
    CASE env.html = "dict"  -> [kind |-> "dict", source |-> "html",
                                markdown |-> <<"md">>,
                                figures |-> <<"x1.png">>]
      [] env.html = "empty" -> [kind |-> "dict", source |-> "html",
                                markdown |-> <<>>, figures |-> <<>>]
      [] OTHER              -> [kind |-> PyNone]

\* parse_pdf's return value: the element list (parse_pdf.py:173)
ParsedPdf == [kind |-> "list"]

\* the result of a process_paper call, as its future holds it
TaskReturned(paper, calls, case) ==
    [st |-> "returned", paper |-> paper, body_calls |-> calls, case |-> case]

TaskRaised(paper, calls, case) ==
    [st |-> "raised", paper |-> paper, body_calls |-> calls, case |-> case]

\* lines 75-77 and 82-84: no content; the paper goes on with an empty body
ContentFailedRaises(paper) == TaskRaised(paper, 0, "content_failed")

ContentFailed(paper) ==
    TaskReturned([paper EXCEPT !.keys = @ \cup {"content_md_zh", "figures"},
                               !.content_md_zh = <<>>,
                               !.figures = <<>>],
                 0, "content_failed")

\* lines 86-100: Step 3 on the parsed document
TranslateContent(paper, parsed, env) ==
    IF parsed.kind = "list"
    THEN \* a list has no get(): AttributeError leaves process_paper
         TaskRaised(paper, 0, "raised")
    ELSE LET p1 == [paper EXCEPT
                      !.keys = @ \cup {"figures", "parse_source",
                                       "content_md_zh"},
                      !.figures = parsed.figures,
                      !.parse_source = parsed.source]
         IN  IF parsed.markdown # <<>>
             THEN IF env.tr_ok
                  THEN TaskReturned(
                         [p1 EXCEPT !.content_md_zh =
                                       translate_markdown(parsed.markdown)],
                         1, "content")
                  ELSE TaskReturned(
                         [p1 EXCEPT !.content_md_zh = parsed.markdown],
                         1, "content")
             ELSE TaskReturned([p1 EXCEPT !.content_md_zh = <<>>], 0,
                               "content")

\* process_paper (lines 59-100)
ProcessPaper(paper0, env) ==
    LET paper == TranslatePaperMeta(paper0, env)
    IN  IF env.html = "raises"
        THEN TaskRaised(paper, 0, "raised")
        ELSE IF ParsedHtml(env).kind = PyNone
        THEN IF env.pdf = "none"
             THEN ContentFailed(paper)
             ELSE IF env.parse = "raises"
             THEN ContentFailed(paper)
             ELSE TranslateContent(paper, ParsedPdf, env)
        ELSE TranslateContent(paper, ParsedHtml(env), env)

\* every way a process_paper call on this dict can end
Outcomes(paper) == {ProcessPaper(paper, env) : env \in Envs}

\* ex.submit(process_paper, dict(p), date_str): the task works on a copy
Queued(p) == [st |-> "queued", paper |-> p, body_calls |-> 0,
              case |-> "none"]

Indices == 1..Len(papers)

Running == {i \in Indices : tasks[i].st = "running"}

Finished == {i \in Indices : tasks[i].st \in {"returned", "raised"}}

\* lines 123-128: where the entry of the future of index idx goes
\* (nth: it is the nth future that as_completed yields)
EnrichedSlotByCompletion(idx, nth) == nth

EnrichedSlot(idx, nth) == idx

\* lines 124-128: the entry a future gives
FutureEntry(task, original) ==
    IF task.st = "raised" THEN original ELSE task.paper

\* lines 124-128: the try/except keeps run in the loop
AfterFutureNoCatch(st) == IF st = "raised" THEN "raised" ELSE "pool"

AfterFuture(st) == "pool"

\* line 130
FilterNone(seq) == SelectSeq(seq, LAMBDA e : e # NoEntry)

InitRun ==
    /\ run_pc = "fetch"
    /\ run_error = NoKey
    /\ papers = <<>>
    /\ tasks = <<>>
    /\ collected = {}
    /\ enriched = <<>>
    /\ built_with = NotCalled
    /\ mailed_with = NotCalled
    /\ email_failed = FALSE
    /\ PdfIdle
    /\ FigIdle
    /\ CacheIdle
    /\ HtmlIdle
    /\ BatchIdle
    /\ CropIdle
    /\ WorkersIdle

\* line 109, fetch_daily_papers raises (raise_for_status, a network error):
\* nothing in run catches it
RunFetchRaises ==
    /\ run_pc = "fetch"
    /\ run_pc' = "raised"
    /\ run_error' = "fetch"
    /\ UNCHANGED <<papers, tasks, collected, enriched, built_with,
                   mailed_with, email_failed>>
    /\ UNCHANGED nonRunVars

\* lines 109-121: the listing is there; exit when it is empty, else submit
\* one task per paper
RunFetch ==
    /\ run_pc = "fetch"
    /\ \E l \in PaperLists :
          /\ papers' = l
          /\ IF l = <<>>
             THEN /\ run_pc' = "exit"
                  /\ UNCHANGED <<tasks, enriched>>
             ELSE /\ run_pc' = "pool"
                  /\ tasks' = [i \in 1..Len(l) |-> Queued(l[i])]
                  /\ enriched' = [i \in 1..Len(l) |-> NoEntry]
    /\ UNCHANGED <<run_error, collected, built_with, mailed_with,
                   email_failed>>
    /\ UNCHANGED nonRunVars

\* a free worker of the pool takes the oldest queued task
StartTask(i) ==
    /\ run_pc = "pool"
    /\ tasks[i].st = "queued"
    /\ \A j \in 1..(i - 1) : tasks[j].st # "queued"
    /\ Cardinality(Running) < MaxWorkers
    /\ tasks' = [tasks EXCEPT ![i].st = "running"]
    /\ UNCHANGED <<run_pc, run_error, papers, collected, enriched,
                   built_with, mailed_with, email_failed>>
    /\ UNCHANGED nonRunVars

\* the worker's process_paper call returns or raises
FinishTask(i) ==
    /\ run_pc = "pool"
    /\ tasks[i].st = "running"
    /\ \E result \in Outcomes(tasks[i].paper) :
          tasks' = [tasks EXCEPT ![i] = result]
    /\ UNCHANGED <<run_pc, run_error, papers, collected, enriched,
                   built_with, mailed_with, email_failed>>
    /\ UNCHANGED nonRunVars

\* lines 122-128: as_completed yields a finished future
Collect(i) ==
    /\ run_pc = "pool"
    /\ i \in Finished
    /\ i \notin collected
    /\ enriched' = [enriched EXCEPT
                      ![EnrichedSlot(i, Cardinality(collected) + 1)] =
                          FutureEntry(tasks[i], papers[i])]
    /\ collected' = collected \cup {i}
    /\ run_pc' = AfterFuture(tasks[i].st)
    /\ run_error' = IF AfterFuture(tasks[i].st) = "raised"
                    THEN "paper" ELSE run_error
    /\ UNCHANGED <<papers, tasks, built_with, mailed_with, email_failed>>
    /\ UNCHANGED nonRunVars

\* lines 130-133: every future was yielded; drop the None entries and call
\* build_site, which returns or raises (nothing in run catches it)
BuildSite ==
    /\ run_pc = "pool"
    /\ collected = Indices
    /\ enriched' = FilterNone(enriched)
    /\ built_with' = Called(FilterNone(enriched))
    /\ \E ok \in BOOLEAN :
          /\ run_pc' = IF ok THEN "email" ELSE "raised"
          /\ run_error' = IF ok THEN run_error ELSE "build"
    /\ UNCHANGED <<papers, tasks, collected, mailed_with, email_failed>>
    /\ UNCHANGED nonRunVars

\* lines 135-141: send_daily_digest returns or raises; run catches it
SendEmail ==
    /\ run_pc = "email"
    /\ mailed_with' = Called(enriched)
    /\ \E ok \in BOOLEAN : email_failed' = ~ok
    /\ run_pc' = "done"
    /\ UNCHANGED <<run_error, papers, tasks, collected, enriched,
                   built_with>>
    /\ UNCHANGED nonRunVars

NextRun ==
    \/ RunFetchRaises
    \/ RunFetch
    \/ \E i \in Indices : StartTask(i)
    \/ \E i \in Indices : FinishTask(i)
    \/ \E i \in Indices : Collect(i)
    \/ BuildSite
    \/ SendEmail

SpecRun == InitRun /\ [][NextRun]_vars

(***************************************************************************)
(* Properties of run and process_paper (checked under SpecRun).            *)
(***************************************************************************)
\* the list is one entry per input paper, entry i being that of paper i
InInputOrder(list) ==
    /\ Len(list) = Len(papers)
    /\ \A i \in Indices :
          /\ list[i] # NoEntry
          /\ list[i].title = papers[i].title
          /\ list[i].arxiv_id = papers[i].arxiv_id
          /\ tasks[i].st = "returned" => list[i] = tasks[i].paper

\* C2: whatever the order in which the process_paper tasks complete, the
\* list handed to build_site and to send_daily_digest holds the papers in
\* the order of the fetched list: entry i is the result for input paper i.
C2_InputOrderKept ==
    /\ run_pc = "pool" =>
          \A i \in collected :
              /\ enriched[i] # NoEntry
              /\ enriched[i].title = papers[i].title
              /\ tasks[i].st = "returned" => enriched[i] = tasks[i].paper
    /\ built_with.called => InInputOrder(built_with.args)
    /\ mailed_with.called => InInputOrder(mailed_with.args)

\* the second paper's future was yielded and stored while the first
\* paper's task is still running
C2_Witness ==
    /\ run_pc = "pool"
    /\ Len(papers) >= 2
    /\ collected = {2}
    /\ tasks[1].st = "running"
    /\ tasks[2].st = "returned"
    /\ enriched[2] = tasks[2].paper
    /\ enriched[1] = NoEntry

\* C6: an exception of process_paper for one paper never aborts the batch:
\* run is never left by a paper's exception, every paper has been processed
\* when build_site is called, the list it gets has one entry per input
\* paper, and run goes on to the site build and, once that returned, to
\* the email.
C6_PaperFailureDoesNotAbort ==
    /\ run_error # "paper"
    /\ (run_pc = "raised" /\ papers # <<>>) =>
          (run_error = "build" /\ built_with.called)
    /\ run_pc \in {"email", "done"} => built_with.called
    /\ run_pc = "done" => mailed_with.called
    /\ built_with.called =>
          /\ Indices = Finished
          /\ Len(built_with.args) = Len(papers)
          /\ \A i \in Indices : built_with.args[i] # NoEntry
    /\ mailed_with.called => Len(mailed_with.args) = Len(papers)

\* a finished run in which one paper raised and another returned
C6_Witness ==
    /\ run_pc = "done"
    /\ built_with.called
    /\ mailed_with.called
    /\ \E i, j \in Indices :
          /\ tasks[i].st = "raised"
          /\ tasks[j].st = "returned"

\* C7: when process_paper raised for a paper after _translate_paper_meta
\* had set abstract_zh, title_zh and tags, the entry carried forward for
\* that paper into build_site holds that partial state.
C7_PartialStateCarried ==
    built_with.called =>
        \A i \in Indices :
            tasks[i].st = "raised" =>
                /\ MetaKeys \subseteq built_with.args[i].keys
                /\ built_with.args[i].abstract_zh = tasks[i].paper.abstract_zh
                /\ built_with.args[i].title_zh = tasks[i].paper.title_zh
                /\ built_with.args[i].tags = tasks[i].paper.tags

\* C8: run never terminates with an exception, and when the listing cannot
\* be obtained it returns without building the site or sending the email.
C8_RunNeverRaises ==
    /\ run_pc # "raised"
    /\ run_pc = "exit" => (~built_with.called /\ ~mailed_with.called)

\* C9: a paper whose content fully failed (no HTML version, then no PDF or
\* parse_pdf raising) comes back from process_paper normally with
\* content_md_zh = "" and figures = [], without any translation call for
\* the body, and is in the lists passed to build_site and the email.
C9_ContentFailedEmptyBody ==
    \A i \in Indices :
        tasks[i].case = "content_failed" =>
            /\ tasks[i].st = "returned"
            /\ {"content_md_zh", "figures"} \subseteq tasks[i].paper.keys
            /\ tasks[i].paper.content_md_zh = <<>>
            /\ tasks[i].paper.figures = <<>>
            /\ tasks[i].body_calls = 0
            /\ built_with.called =>
                  /\ Len(built_with.args) >= i
                  /\ built_with.args[i] = tasks[i].paper
            /\ mailed_with.called =>
                  /\ Len(mailed_with.args) >= i
                  /\ mailed_with.args[i] = tasks[i].paper

\* a finished run with a paper whose content fully failed
C9_Witness ==
    /\ run_pc = "done"
    /\ \E i \in Indices :
          /\ tasks[i].case = "content_failed"
          /\ mailed_with.called
          /\ mailed_with.args[i].content_md_zh = <<>>

(***************************************************************************)
(* build_site.py: _insert_pdf_figures_inline                               *)
(*                                                                         *)
(* content_html is a sequence of <p> paragraphs.  A paragraph is given by  *)
(* what the caption pattern reads directly after "<p>": an optional        *)
(* <strong>, a first word, whether whitespace follows it, and the digits   *)
(* after the whitespace.  File names are sequences of tokens, one token    *)
(* per decimal digit.                                                      *)
(***************************************************************************)
\* the keyword of Chinese captions, U+5716
ZhFigure == "U+5716"

\* re.IGNORECASE on the sample tokens
Lower(tok) ==
    CASE tok \in {"Figure", "FIGURE", "figure"} -> "figure"
      [] tok \in {"Fig", "FIG", "fig"}          -> "fig"
      [] tok \in {"Fig.", "FIG.", "fig."}       -> "fig."
      [] OTHER                                  -> tok

IsDigit(tok) == \E k \in 1..Len(DigitStr) : DigitStr[k] = tok

DigitVal(tok) == (CHOOSE k \in 1..Len(DigitStr) : DigitStr[k] = tok) - 1

\* int(digits)
RECURSIVE ParseInt(_)
ParseInt(ds) ==
    IF ds = <<>> THEN 0
    ELSE ParseInt(SubSeq(ds, 1, Len(ds) - 1)) * 10 + DigitVal(ds[Len(ds)])

\* the length of the run of digit tokens of seq that starts at position i
RECURSIVE DigitRun(_, _)
DigitRun(seq, i) ==
    IF i <= Len(seq) /\ IsDigit(seq[i]) THEN 1 + DigitRun(seq, i + 1) ELSE 0

\* re.match(r"fig(\d+)\.", name, re.IGNORECASE): group 1, <<>> for no match
NameDigits(name) ==
    IF Len(name) >= 1 /\ Lower(name[1]) = "fig"
    THEN LET k == DigitRun(name, 2)
         IN  IF k >= 1 /\ Len(name) >= k + 2 /\ name[k + 2] = "."
             THEN SubSeq(name, 2, k + 1)
             ELSE <<>>
    ELSE <<>>

\* lines 49-53: fig_map, the last file of a number wins
RECURSIVE FigMapOf(_)
FigMapOf(figs) ==
    IF figs = <<>> THEN [n \in {} |-> <<>>]
    ELSE LET before == FigMapOf(SubSeq(figs, 1, Len(figs) - 1))
             name   == figs[Len(figs)].name
         IN  IF NameDigits(name) # <<>>
             THEN [n \in DOMAIN before \cup {ParseInt(NameDigits(name))} |->
                      IF n = ParseInt(NameDigits(name)) THEN name
                      ELSE before[n]]
             ELSE before

\* lines 78-81: the pattern matches at this paragraph
CaptionMatch(par) ==
    /\ Lower(par.kw) \in {"figure", "fig", "fig.", ZhFigure}
    /\ par.space
    /\ par.digits # <<>>

\* int(match.group(1))
CaptionNumber(par) == ParseInt(par.digits)

\* the tokens the function adds to the content
InlineImg(figures_base, fname, n) ==
    [kind |-> "figure", src |-> <<figures_base>> \o fname,
     alt |-> <<"Figure">> \o Digits(n)]

GalleryImg(figures_base, fname) ==
    [kind |-> "figure", src |-> <<figures_base>> \o fname, alt |-> fname]

GalleryOpen  == [kind |-> "gallery_open"]
GalleryClose == [kind |-> "gallery_close"]

\* line 64: `if fname and n not in inserted`
ShouldInsertEveryCaption(n, fig_map, inserted) == n \in DOMAIN fig_map

ShouldInsert(n, fig_map, inserted) ==
    n \in DOMAIN fig_map /\ n \notin inserted

\* line 82: pattern.sub(_replace_caption, content_html), the matches taken
\* from left to right with the set `inserted` shared between them
RECURSIVE SubCaptions(_, _, _, _)
SubCaptions(content, fig_map, inserted, figures_base) ==
    IF content = <<>> THEN [out |-> <<>>, inserted |-> inserted]
    ELSE LET par == Head(content)
             n   == CaptionNumber(par)
         IN  IF CaptionMatch(par) /\ ShouldInsert(n, fig_map, inserted)
             THEN LET r == SubCaptions(Tail(content), fig_map,
                                       inserted \cup {n}, figures_base)
                  IN  [out |-> <<InlineImg(figures_base, fig_map[n], n),
                                 par>> \o r.out,
                       inserted |-> r.inserted]
             ELSE LET r == SubCaptions(Tail(content), fig_map, inserted,
                                       figures_base)
                  IN  [out |-> <<par>> \o r.out, inserted |-> r.inserted]

\* sorted(fig_map)
RECURSIVE SortedDescending(_)
SortedDescending(S) ==
    IF S = {} THEN <<>>
    ELSE LET m == CHOOSE x \in S : \A y \in S : x >= y
         IN  <<m>> \o SortedDescending(S \ {m})

RECURSIVE Sorted(_)
Sorted(S) ==
    IF S = {} THEN <<>>
    ELSE LET m == CHOOSE x \in S : \A y \in S : x <= y
         IN  <<m>> \o Sorted(S \ {m})

\* _insert_pdf_figures_inline (lines 41-96)
InsertPdfFiguresInline(content, figs, figures_base) ==
    LET fig_map == FigMapOf(figs)
    IN  IF DOMAIN fig_map = {} THEN content
        ELSE LET r       == SubCaptions(content, fig_map, {}, figures_base)
                 numbers == SelectSeq(Sorted(DOMAIN fig_map),
                                      LAMBDA n : n \notin r.inserted)
                 missing == [k \in 1..Len(numbers) |-> fig_map[numbers[k]]]
             IN  IF missing # <<>>
                 THEN r.out \o <<GalleryOpen>>
                      \o [k \in 1..Len(missing) |->
                             GalleryImg(figures_base, missing[k])]
                      \o <<GalleryClose>>
                 ELSE r.out

\* f"../../figures/{date_str}/{arxiv_id}/" (build_paper_page)
FiguresBase == "../../figures/d/id/"

Para(strong, kw, space, digits) ==
    [kind |-> "p", strong |-> strong, kw |-> kw, space |-> space,
     digits |-> digits]

\* <p>Figure 1. | <p><strong>U+5716 1.</strong> | <p>fig 2 | <p>Fig. 10 |
\* <p>Figure 3. | <p>Figure1. | <p>Table 1.
ParaSamples ==
    {Para(FALSE, "Figure", TRUE, <<"1">>),
     Para(TRUE, ZhFigure, TRUE, <<"1">>),
     Para(FALSE, "fig", TRUE, <<"2">>),
     Para(FALSE, "Fig.", TRUE, <<"1", "0">>),
     Para(FALSE, "Figure", TRUE, <<"3">>),
     Para(FALSE, "Figure", FALSE, <<"1">>),
     Para(FALSE, "Table", TRUE, <<"1">>)}

FigureDict(name) == [name |-> name, caption |-> ""]

\* fig1.png, fig1.jpg, fig2.png, fig10.png and the page-scoped p1_fig1.png
FigureSamples ==
    {FigureDict(<<"fig", "1", ".", "png">>),
     FigureDict(<<"fig", "1", ".", "jpg">>),
     FigureDict(<<"fig", "2", ".", "png">>),
     FigureDict(<<"fig", "1", "0", ".", "png">>),
     FigureDict(FigName(1, 1))}

SeqsUpTo(S, n) == UNION {[1..k -> S] : k \in 0..n}

InitFig ==
    /\ fig_pc = "call"
    /\ content_html \in SeqsUpTo(ParaSamples, MaxParas)
    /\ figures \in SeqsUpTo(FigureSamples, MaxFigs)
    /\ fig_out = <<>>
    /\ PdfIdle
    /\ RunIdle
    /\ CacheIdle
    /\ HtmlIdle
    /\ BatchIdle
    /\ CropIdle
    /\ WorkersIdle

InsertFigures ==
    /\ fig_pc = "call"
    /\ fig_out' = InsertPdfFiguresInline(content_html, figures, FiguresBase)
    /\ fig_pc' = "done"
    /\ UNCHANGED <<content_html, figures>>
    /\ UNCHANGED nonFigVars

NextFig == InsertFigures

SpecFig == InitFig /\ [][NextFig]_vars

(***************************************************************************)
(* Properties of _insert_pdf_figures_inline (checked under SpecFig).       *)
(***************************************************************************)
\* the caption paragraphs of the content that are numbered K
CaptionsOf(K) ==
    {i \in 1..Len(content_html) :
        CaptionMatch(content_html[i]) /\ CaptionNumber(content_html[i]) = K}

IsFigure(j) == fig_out[j].kind = "figure"

\* the file a figure token of the output shows
FileOf(j) == Tail(fig_out[j].src)

\* where the gallery starts in the output (0: no gallery)
GalleryStart ==
    IF \E j \in 1..Len(fig_out) : fig_out[j] = GalleryOpen
    THEN CHOOSE j \in 1..Len(fig_out) : fig_out[j] = GalleryOpen
    ELSE 0

MainEnd == IF GalleryStart = 0 THEN Len(fig_out) ELSE GalleryStart - 1

\* the figure tokens of file fname in the main content, and in the gallery
InlineOf(fname) ==
    {j \in 1..MainEnd : IsFigure(j) /\ FileOf(j) = fname}

InGalleryOf(fname) ==
    {j \in (MainEnd + 1)..Len(fig_out) : IsFigure(j) /\ FileOf(j) = fname}

\* the position in the output of the i-th paragraph of the content
ParaPos(i) ==
    CHOOSE j \in 1..Len(fig_out) :
        /\ fig_out[j].kind = "p"
        /\ Cardinality({m \in 1..j : fig_out[m].kind = "p"}) = i

ParagraphsKept ==
    SelectSeq(fig_out, LAMBDA t : t.kind = "p") = content_html

\* C3: for every figure number K of the figure list and every content with
\* at least one caption paragraph numbered K, exactly one image of figure K
\* is inserted, directly before the first such caption; the later captions
\* numbered K are left as they are; figure K is not in the gallery.
C3_OneImageBeforeFirstCaption ==
    fig_pc = "done" =>
        /\ ParagraphsKept
        /\ \A K \in DOMAIN FigMapOf(figures) :
              CaptionsOf(K) # {} =>
                  LET fname == FigMapOf(figures)[K]
                      first == CHOOSE i \in CaptionsOf(K) :
                                   \A i2 \in CaptionsOf(K) : i <= i2
                  IN  /\ Cardinality(InlineOf(fname)) = 1
                      /\ InlineOf(fname) = {ParaPos(first) - 1}
                      /\ fig_out[ParaPos(first) - 1] =
                            InlineImg(FiguresBase, fname, K)
                      /\ \A i \in CaptionsOf(K) \ {first} :
                            ~IsFigure(ParaPos(i) - 1)
                      /\ InGalleryOf(fname) = {}

\* figure 1 with two captions numbered 1, a plain and a bold one
C3_Witness ==
    /\ fig_pc = "done"
    /\ figures = <<FigureDict(<<"fig", "1", ".", "png">>)>>
    /\ content_html = <<Para(FALSE, "Table", TRUE, <<"1">>),
                        Para(TRUE, ZhFigure, TRUE, <<"1">>),
                        Para(FALSE, "Figure", TRUE, <<"1">>)>>
    /\ fig_out = <<Para(FALSE, "Table", TRUE, <<"1">>),
                   InlineImg(FiguresBase, <<"fig", "1", ".", "png">>, 1),
                   Para(TRUE, ZhFigure, TRUE, <<"1">>),
                   Para(FALSE, "Figure", TRUE, <<"1">>)>>

\* C4: every figure number of the figure list with no matching caption is
\* shown exactly once in the output, in the gallery appended after the main
\* content, the gallery being in ascending numeric order; when every figure
\* number is matched there is no gallery.
C4_UnmatchedInGalleryAscending ==
    fig_pc = "done" =>
        LET fig_map   == FigMapOf(figures)
            unmatched == {K \in DOMAIN fig_map : CaptionsOf(K) = {}}
            gallery   == (GalleryStart + 1)..(Len(fig_out) - 1)
        IN  /\ unmatched = {} =>
                  /\ GalleryStart = 0
                  /\ \A j \in 1..Len(fig_out) :
                        fig_out[j].kind \notin {"gallery_open",
                                                "gallery_close"}
            /\ unmatched # {} =>
                  /\ GalleryStart > 0
                  /\ fig_out[Len(fig_out)] = GalleryClose
                  /\ Cardinality({j \in 1..Len(fig_out) :
                         fig_out[j].kind \in {"gallery_open",
                                              "gallery_close"}}) = 2
                  /\ SubSeq(fig_out, 1, MainEnd) =
                        SubCaptions(content_html, fig_map, {},
                                    FiguresBase).out
                  /\ \A j \in gallery : IsFigure(j)
                  /\ {ParseInt(NameDigits(FileOf(j))) : j \in gallery}
                        = unmatched
                  /\ \A j \in gallery :
                        /\ FileOf(j) =
                              fig_map[ParseInt(NameDigits(FileOf(j)))]
                        /\ (j + 1) \in gallery =>
                              ParseInt(NameDigits(FileOf(j))) <
                                 ParseInt(NameDigits(FileOf(j + 1)))
                  /\ \A K \in unmatched :
                        /\ Cardinality(InGalleryOf(fig_map[K])) = 1
                        /\ InlineOf(fig_map[K]) = {}

\* fig1.png and fig2.png with only a caption for Figure 1: fig1 inline,
\* fig2 in the gallery
C4_Witness ==
    /\ fig_pc = "done"
    /\ figures = <<FigureDict(<<"fig", "1", ".", "png">>),
                   FigureDict(<<"fig", "2", ".", "png">>)>>
    /\ content_html = <<Para(FALSE, "Figure", TRUE, <<"1">>)>>
    /\ fig_out = <<InlineImg(FiguresBase, <<"fig", "1", ".", "png">>, 1),
                   Para(FALSE, "Figure", TRUE, <<"1">>),
                   GalleryOpen,
                   GalleryImg(FiguresBase, <<"fig", "2", ".", "png">>),
                   GalleryClose>>


-----------------------------------------------------------------------------
\* The cached stages, called again and again with one (date, arxiv id).
\* Each stage reads its own file of the data directory; what the remote
\* service answers is the environment's choice at every call.

Stages == {"fetch_daily_papers", "parse_arxiv_html", "parse_pdf",
           "translate_paper_content", "generate_tags"}

\* the longest listing the papers API answers with
MaxItems == 1
\* the most <figure> images an HTML document has
MaxHtmlFigs == 1

\* a file that an interrupted write_text left behind: not JSON
Truncated == [truncated |-> TRUE]

JsonValid(content) == "json" \in DOMAIN content

\* None, as parse_arxiv_html returns it
NoneResult == [none |-> TRUE]

\* how a call of a stage ends: what it returned or that it raised, the
\* stage's file afterwards and the number of remote requests it made
StageReturned(v, file, n) ==
    [status |-> "returned", value |-> v, file |-> file, remote_calls |-> n]
StageRaised(file, n) ==
    [status |-> "raised", file |-> file, remote_calls |-> n]

\* cache_path.exists()
CacheHitNever(file) == FALSE

CacheHit(file) == file.exists

\* return json.loads(cache_path.read_text())
ReadCache(file) ==
    IF JsonValid(file.content)
    THEN StageReturned(json_loads(file.content), file, 0)
    ELSE StageRaised(file, 0)

\* cache_path.write_text(json.dumps(v)); return v
WriteCache(v, n) == StageReturned(v, File(json_dumps(v)), n)

\* ---- fetch_daily_papers ----
SampleId == "2401.00001"

RawItems == {[paper |-> [id |-> SampleId]], [id |-> SampleId],
             [title |-> "t"]}

NormalizeItem(item) ==
    LET p == IF "paper" \in DOMAIN item THEN item.paper ELSE item
    IN  [arxiv_id |-> IF "id" \in DOMAIN p THEN p.id ELSE ""]

FetchEnvs ==
    {[http |-> "error"]}
        \cup {[http |-> "ok", raw |-> r] : r \in SeqsUpTo(RawItems, MaxItems)}

fetch_daily_papers(file, env) ==
    IF CacheHit(file) THEN ReadCache(file)
    ELSE IF env.http = "error" THEN StageRaised(file, 1)
    ELSE WriteCache([i \in 1..Len(env.raw) |-> NormalizeItem(env.raw[i])], 1)

\* ---- parse_arxiv_html ----
\* the GET raises, answers another status than 200, answers a page with
\* no body at all, or answers a document whose figure images download or
\* do not
HtmlEnvs ==
    {[get |-> g] : g \in {"exception", "not_200", "no_article"}}
        \cup {[get |-> "document", downloads |-> d] :
                 d \in SeqsUpTo(BOOLEAN, MaxHtmlFigs)}

HtmlFigName(i) == <<"x">> \o Digits(i) \o <<".", "png">>

HtmlFigures(downloads) ==
    LET F[i \in 0..Len(downloads)] ==
            IF i = 0 THEN <<>>
            ELSE IF downloads[i]
                 THEN Append(F[i - 1],
                             [name |-> HtmlFigName(i), caption |-> "c"])
                 ELSE F[i - 1]
    IN  F[Len(downloads)]

parse_arxiv_html(file, env) ==
    IF CacheHit(file) THEN ReadCache(file)
    ELSE IF env.get \in {"exception", "not_200", "no_article"}
         THEN StageReturned(NoneResult, file, 1)
    ELSE WriteCache([source |-> "html", markdown |-> "md",
                     figures |-> HtmlFigures(env.downloads)],
                    1 + Len(env.downloads))


\* ---- parse_pdf, as its callers see it ----
\* fitz.open raises or the document opens; every page costs one OCR
\* request and yields a text element or nothing
PdfEnvs ==
    {[open |-> "raises"]}
        \cup {[open |-> "ok", pages |-> pg] :
                 pg \in UNION {[1..k -> BOOLEAN] : k \in 1..MaxPages}}

PdfElements(pages) ==
    LET E[i \in 0..Len(pages)] ==
            IF i = 0 THEN <<>>
            ELSE IF pages[i]
                 THEN Append(E[i - 1],
                             [type |-> "text", text |-> "t", page |-> i])
                 ELSE E[i - 1]
    IN  E[Len(pages)]

parse_pdf(file, env) ==
    IF CacheHit(file) THEN ReadCache(file)
    ELSE IF env.open = "raises" THEN StageRaised(file, 0)
    ELSE WriteCache(PdfElements(env.pages), Len(env.pages))

\* ---- translate_paper_content ----
\* the elements of the paper: the same at every call
SampleElements ==
    <<[type |-> "text", text |-> "t"],
      [type |-> "image", fig_name |-> "f"],
      [type |-> "table", text |-> "<table>"]>>

translatable_types == {"text", "section", "title", "caption", "footnote"}

\* the batch request raises or answers one of two translations; the
\* table request raises (the original text is kept) or answers
TranslateEnvs ==
    [batch : {"raises", "zh_a", "zh_b"}, table : {"raises", "zh_table"}]

WithTextZh(e, zh) ==
    [k \in DOMAIN e \cup {"text_zh"} |-> IF k = "text_zh" THEN zh ELSE e[k]]

TranslatedElement(e, env) ==
    IF e.type \in translatable_types THEN WithTextZh(e, env.batch)
    ELSE IF e.type = "table"
         THEN WithTextZh(e, IF env.table = "raises" THEN e.text
                            ELSE env.table)
    ELSE e

translate_paper_content(file, elements, env) ==
    LET text_indices == {i \in 1..Len(elements) :
                            elements[i].type \in translatable_types}
        tables == {i \in 1..Len(elements) : elements[i].type = "table"}
        batches == IF text_indices = {} THEN 0 ELSE 1
    IN  IF CacheHit(file) THEN ReadCache(file)
        ELSE IF batches > 0 /\ env.batch = "raises"
             THEN StageRaised(file, 1)
        ELSE WriteCache([i \in 1..Len(elements) |->
                            TranslatedElement(elements[i], env)],
                        batches + Cardinality(tables))

\* ---- generate_tags ----
ListKeys == {"domain", "method", "task", "dataset"}

\* a JSON value of the model's answer, with its Python type
JList(v) == [is |-> "list", v |-> v]
JStr(v)  == [is |-> "str", v |-> v]
JBool(v) == [is |-> "bool", v |-> v]

DefaultTags ==
    [k \in ListKeys \cup {"open_source"} |->
        IF k = "open_source" THEN JBool(FALSE) ELSE JList(<<>>)]

\* the request raises, or the answer holds a full object, an object with
\* a wrong type and missing keys, or no JSON at all
TagEnvs == {"raises", "full", "partial", "not_json"}

ParsedTags(answer) ==
    CASE answer = "full" ->
            [k \in ListKeys \cup {"open_source"} |->
                IF k = "open_source" THEN JBool(TRUE) ELSE JList(<<"x">>)]
      [] answer = "partial" ->
            [k \in {"domain", "method", "open_source"} |->
                IF k = "domain" THEN JStr("x")
                ELSE IF k = "method" THEN JList(<<"x">>) ELSE JStr("yes")]
      [] OTHER -> DefaultTags

NormalizeTags(tags) ==
    [k \in DOMAIN tags \cup ListKeys \cup {"open_source"} |->
        IF k \in ListKeys
        THEN IF k \in DOMAIN tags /\ tags[k].is = "list"
             THEN tags[k] ELSE JList(<<>>)
        ELSE IF k = "open_source"
             THEN IF k \in DOMAIN tags /\ tags[k].is = "bool"
                  THEN tags[k] ELSE JBool(FALSE)
        ELSE tags[k]]

generate_tags(file, env) ==
    IF CacheHit(file) THEN ReadCache(file)
    ELSE IF env = "raises" THEN StageRaised(file, 1)
    ELSE WriteCache(NormalizeTags(ParsedTags(env)), 1)


\* ---- download_pdf ----
\* download_pdf keeps its file by a test of its own
AllStages == Stages \cup {"download_pdf"}

\* the bytes of a PDF file: more than 1024 of them or not
PdfBytes(big) == [pdf |-> TRUE, big |-> big]

PdfPath == [path |-> "pdfs"]

\* pdf_path.exists() and pdf_path.stat().st_size > 1024
PdfOnDiskAnySize(file) == file.exists

PdfOnDisk(file) == file.exists /\ file.content.big

\* the GET raises (or raise_for_status does), or answers a body of more
\* or of less than 1024 bytes
DownloadEnvs == {"raises", "big", "small"}

download_pdf(file, env) ==
    IF PdfOnDisk(file) THEN StageReturned(PdfPath, file, 0)
    ELSE IF env = "raises" THEN StageReturned(NoneResult, file, 1)
    ELSE StageReturned(PdfPath, File(PdfBytes(env = "big")), 1)

\* the files an interrupted run can have left for a stage
LeftFiles(stage) ==
    IF stage = "download_pdf"
    THEN {NoFile, File(PdfBytes(FALSE)), File(PdfBytes(TRUE))}
    ELSE {NoFile, File(Truncated)}

\* ---- the calls ----
\* the data directory is empty, or holds files that an interrupted run
\* left truncated
InitCache ==
    /\ cache_files \in
          {f \in [AllStages -> UNION {LeftFiles(s) : s \in AllStages}] :
              \A s \in AllStages : f[s] \in LeftFiles(s)}
    /\ prev_ret = [s \in AllStages |-> NotReturned]
    /\ last_call = NoCall
    /\ PdfIdle
    /\ RunIdle
    /\ FigIdle
    /\ HtmlIdle
    /\ BatchIdle
    /\ CropIdle
    /\ WorkersIdle

\* one call of a stage has ended as res says.  A behaviour follows the
\* calls of one stage with one (date, arxiv id): a stage reads and writes
\* no file but its own, so the calls of the others cannot matter to it.
Called_(stage, res) ==
    /\ last_call = NoCall \/ last_call.stage = stage
    /\ cache_files' = [cache_files EXCEPT ![stage] = res.file]
    /\ last_call' = [stage |-> stage,
                     result |-> IF res.status = "returned"
                                THEN Returned(res.value) ELSE NotReturned,
                     remote_calls |-> res.remote_calls,
                     first |-> prev_ret[stage],
                     file |-> cache_files[stage],
                     written |-> res.file # cache_files[stage]]
    /\ prev_ret' = [prev_ret EXCEPT
                       ![stage] = IF res.status = "returned"
                                  THEN Returned(res.value) ELSE @]
    /\ UNCHANGED nonCacheVars

CallFetchDailyPapers ==
    LET file == cache_files["fetch_daily_papers"]
    IN  \E res \in {fetch_daily_papers(file, env) : env \in FetchEnvs} :
            Called_("fetch_daily_papers", res)

CallParseArxivHtml ==
    LET file == cache_files["parse_arxiv_html"]
    IN  \E res \in {parse_arxiv_html(file, env) : env \in HtmlEnvs} :
            Called_("parse_arxiv_html", res)

CallParsePdf ==
    LET file == cache_files["parse_pdf"]
    IN  \E res \in {parse_pdf(file, env) : env \in PdfEnvs} :
            Called_("parse_pdf", res)

CallTranslatePaperContent ==
    LET file == cache_files["translate_paper_content"]
    IN  \E res \in {translate_paper_content(file, SampleElements, env) :
                        env \in TranslateEnvs} :
            Called_("translate_paper_content", res)

CallGenerateTags ==
    LET file == cache_files["generate_tags"]
    IN  \E res \in {generate_tags(file, env) : env \in TagEnvs} :
            Called_("generate_tags", res)

CallDownloadPdf ==
    LET file == cache_files["download_pdf"]
    IN  \E res \in {download_pdf(file, env) : env \in DownloadEnvs} :
            Called_("download_pdf", res)

NextCache ==
    \/ CallDownloadPdf
    \/ CallFetchDailyPapers
    \/ CallParseArxivHtml
    \/ CallParsePdf
    \/ CallTranslatePaperContent
    \/ CallGenerateTags

SpecCache == InitCache /\ [][NextCache]_vars

\* ---- C5 ----
\* the latest call is a second call of one of the five stages: an
\* earlier call of the same stage with the same inputs has returned
SecondCall ==
    /\ last_call # NoCall
    /\ last_call.stage \in Stages
    /\ last_call.first.returned

\* the latest call returned what the earlier one returned, and made no
\* remote request
SameOutputNoRemote ==
    /\ last_call.result = last_call.first
    /\ last_call.remote_calls = 0

\* the earlier call returned None: only parse_arxiv_html does
FirstReturnedNone ==
    /\ last_call.stage = "parse_arxiv_html"
    /\ last_call.first = Returned(NoneResult)

\* C5 as stated: for each cached stage, whenever a first call returns, a
\* second call with the same inputs returns the first call's output and
\* makes zero remote requests.  parse_arxiv_html returns None without
\* writing parsed_html.json, so its second call asks arxiv again.
C5_RoundTripAfterAnyReturn ==
    SecondCall => SameOutputNoRemote

\* C5, amended: for each cached stage, whenever a first call returns a
\* value other than None, a second call with the same inputs returns the
\* first call's output and makes zero remote requests.
C5_RoundTripAfterResult ==
    (SecondCall /\ ~FirstReturnedNone) => SameOutputNoRemote

\* a second call of parse_arxiv_html, after a first one that parsed a
\* document with one downloaded figure, has returned the same document
\* from the file, with no request
C5_Witness ==
    /\ last_call # NoCall
    /\ last_call.stage = "parse_arxiv_html"
    /\ last_call.first =
          Returned([source |-> "html", markdown |-> "md",
                    figures |-> <<[name |-> HtmlFigName(1),
                                   caption |-> "c"]>>])
    /\ last_call.result = last_call.first
    /\ last_call.remote_calls = 0


-----------------------------------------------------------------------------
\* The figure loop of parse_arxiv_html (parse_arxiv_html.py:114-136).
\* A src is a directory and a last path segment; the segment is a
\* sequence of characters, with a known extension kept as one token.

\* the most <figure> tags of an article
MaxTags == 2

\* the characters re.sub(r"[^a-zA-Z0-9._-]", "_", ...) keeps
KeptTokens == {"x", "1", "2", ".", "_", "-", "png", "jpg"}

SanitizeToken(tok) == IF tok \in KeptTokens THEN tok ELSE "_"

\* re.sub(r"[^a-zA-Z0-9._-]", "_", segment)
Sanitize(segment) == [i \in 1..Len(segment) |-> SanitizeToken(segment[i])]

\* fig_name.endswith((".png", ".jpg", ".jpeg", ".svg", ".gif"))
EndsWithImageExt(name) ==
    /\ Len(name) >= 2
    /\ name[Len(name) - 1] = "."
    /\ name[Len(name)] \in {"png", "jpg", "jpeg", "svg", "gif"}

\* lines 123-125
HtmlFigNameOf(src) ==
    LET fig_name == Sanitize(src.file)
    IN  IF EndsWithImageExt(fig_name) THEN fig_name
        ELSE fig_name \o <<".", "png">>

Src(dir, file) == [dir |-> dir, file |-> file]

SrcSamples ==
    {Src("a", <<"x", "1", ".", "png">>),
     Src("b", <<"x", "1", ".", "png">>),
     Src("a", <<"x", "2", ".", "png">>),
     Src("a", <<"x", " ", "1", ".", "jpg">>),
     Src("a", <<"x", "_", "1", ".", "jpg">>),
     Src("a", <<"x", "1">>)}

\* a <figure> tag: with an <img src> whose download succeeds or not, or
\* without an image
ImgTag(src, ok) == [img |-> TRUE, src |-> src, ok |-> ok]
NoImgTag == [img |-> FALSE]

TagSamples ==
    {ImgTag(src, ok) : src \in SrcSamples, ok \in BOOLEAN} \cup {NoImgTag}

InitHtml ==
    /\ html_pc = "loop"
    /\ html_tags \in SeqsUpTo(TagSamples, MaxTags)
    /\ html_figures = <<>>
    /\ html_files = {}
    /\ PdfIdle
    /\ RunIdle
    /\ FigIdle
    /\ CacheIdle
    /\ BatchIdle
    /\ CropIdle
    /\ WorkersIdle

\* one pass of the loop body, lines 115-136
HtmlFigure ==
    /\ html_pc = "loop"
    /\ html_tags # <<>>
    /\ LET fig == Head(html_tags)
       IN  IF fig.img /\ fig.ok
           THEN LET fig_name == HtmlFigNameOf(fig.src)
                IN  /\ html_figures' =
                          Append(html_figures,
                                 [name |-> fig_name, caption |-> "c",
                                  src |-> fig.src])
                    /\ html_files' = html_files \cup {fig_name}
           ELSE UNCHANGED <<html_figures, html_files>>
    /\ html_tags' = Tail(html_tags)
    /\ html_pc' = "loop"
    /\ UNCHANGED nonHtmlVars

\* the loop is over
HtmlLoopEnd ==
    /\ html_pc = "loop"
    /\ html_tags = <<>>
    /\ html_pc' = "done"
    /\ UNCHANGED <<html_tags, html_figures, html_files>>
    /\ UNCHANGED nonHtmlVars

NextHtml == HtmlFigure \/ HtmlLoopEnd

SpecHtml == InitHtml /\ [][NextHtml]_vars

\* C11: the figure filenames in the figures list returned by
\* parse_arxiv_html are pairwise distinct, whatever the src values of the
\* <figure> images: two figures of the list that come from different src
\* values have different names.  (src is kept in the entry as history.)
C11_HtmlFigNamesDistinct ==
    html_pc = "done" =>
        \A i, j \in 1..Len(html_figures) :
            html_figures[i].src # html_figures[j].src
                => html_figures[i].name # html_figures[j].name


-----------------------------------------------------------------------------
\* Further properties of parse_pdf (checked under SpecPdf).

ElementTypes == {"title", "section", "text", "table", "formula", "caption",
                 "footnote", "image"}

\* C12: every element of the list parse_pdf builds and returns has a type
\* in {title, section, text, table, formula, caption, footnote, image},
\* and no raw record of category Page-header or Page-footer has produced
\* an element, whatever the raw records of the pages.
C12_TypesAndNoHeaders ==
    /\ Len(elem_category) = Len(all_elements)
    /\ \A i \in 1..Len(all_elements) :
          /\ all_elements[i].type \in ElementTypes
          /\ elem_category[i] \notin {"Page-header", "Page-footer"}
    /\ (pdf_pc = "done" /\ n_pages > 0 /\ raw_total > 0) =>
          pdf_ret = Returned(all_elements)

\* parse_pdf has returned a non-empty list after iterating a header or a
\* footer record
C12_Witness ==
    /\ pdf_pc = "done"
    /\ headers_seen > 0
    /\ all_elements # <<>>
    /\ pdf_ret = Returned(all_elements)


\* C13: when no payload can be recovered from the OCR answer,
\* _call_dotsocr returns an empty list and does not raise, and parse_pdf
\* treats the empty result as "use fallback": the page's raw elements are
\* then those of _fallback_parse_page.
C13_EmptyMeansFallback ==
    \A p \in 1..n_pages :
        ocr_payload[p] = "unrecoverable" =>
            /\ ocr_result[p] = "returned"
            /\ fallback_calls[p] = 1


-----------------------------------------------------------------------------
\* The workers of the pool (main.py:117-121), each in its process_paper
\* call, and the files they test and write under DATA_DIR / date_str.
\* A stage is a step of process_paper that tests a path with exists() and,
\* when it is absent, computes and writes it.

WorkerStages == <<"abstract", "title", "tags", "html", "pdf", "parse">>

\* a path under DATA_DIR / date_str: <arxiv_id>/<file> or pdfs/<file>
Path(dir, file) == [dir |-> dir, file |-> file]

\* the path a stage tests with exists()
CachePath(stage, arxiv_id) ==
    CASE stage = "abstract" -> Path(arxiv_id, <<"abstract_zh.txt">>)
      [] stage = "title"    -> Path(arxiv_id, <<"title_zh.txt">>)
      [] stage = "tags"     -> Path(arxiv_id, <<"tags.json">>)
      [] stage = "html"     -> Path(arxiv_id, <<"parsed_html.json">>)
      [] stage = "pdf"      -> Path("pdfs", <<arxiv_id, ".pdf">>)
      [] stage = "parse"    -> Path(arxiv_id, <<"parsed.json">>)

\* the paths a stage writes when it computes and succeeds: its cache file
\* and, for the two parsers, a figure file
StageWrites(stage, arxiv_id) ==
    {CachePath(stage, arxiv_id)} \cup
    (CASE stage = "html"  -> {Path(arxiv_id, <<"figures", "x1.png">>)}
       [] stage = "parse" -> {Path(arxiv_id, <<"figures", "p1_fig1.png">>)}
       [] OTHER           -> {})

\* where process_paper goes after a stage; ok: the stage has its result
\* (read from the file or computed)
StageAfter(stage, ok) ==
    CASE stage = "abstract" -> "title"
      [] stage = "title"    -> "tags"
      [] stage = "tags"     -> "html"
      [] stage = "html"     -> IF ok THEN "done" ELSE "pdf"
      [] stage = "pdf"      -> IF ok THEN "parse" ELSE "done"
      [] stage = "parse"    -> "done"

\* the listings, as sequences of arxiv ids: ids repeated or not
IdLists ==
    UNION {{g \in [1..n -> PaperIds] : InOrderOfFirstUse(g, n)}
           : n \in 1..MaxPapers}

WkIndices == 1..Len(wk_ids)

WkRunning == {i \in WkIndices : wk_pc[i] \notin {"queued", "done"}}

InitWorkers ==
    /\ wk_ids \in IdLists
    /\ wk_pc = [i \in 1..Len(wk_ids) |-> "queued"]
    /\ wk_busy = [i \in 1..Len(wk_ids) |-> FALSE]
    /\ wk_writes = [i \in 1..Len(wk_ids) |-> {}]
    /\ disk = {}
    /\ PdfIdle
    /\ RunIdle
    /\ FigIdle
    /\ CacheIdle
    /\ HtmlIdle
    /\ BatchIdle
    /\ CropIdle

\* a free worker of the pool takes the oldest queued task
WkStart(i) ==
    /\ wk_pc[i] = "queued"
    /\ \A j \in 1..(i - 1) : wk_pc[j] # "queued"
    /\ Cardinality(WkRunning) < MaxWorkers
    /\ wk_pc' = [wk_pc EXCEPT ![i] = WorkerStages[1]]
    /\ UNCHANGED <<wk_ids, wk_busy, wk_writes, disk>>
    /\ UNCHANGED nonWorkerVars

\* the worker tests the stage's path: it reads the file and goes on, or
\* starts computing
WkTest(i) ==
    /\ wk_pc[i] \notin {"queued", "done"}
    /\ ~wk_busy[i]
    /\ IF CachePath(wk_pc[i], wk_ids[i]) \in disk
       THEN /\ wk_pc' = [wk_pc EXCEPT ![i] = StageAfter(@, TRUE)]
            /\ UNCHANGED wk_busy
       ELSE /\ wk_busy' = [wk_busy EXCEPT ![i] = TRUE]
            /\ UNCHANGED wk_pc
    /\ UNCHANGED <<wk_ids, wk_writes, disk>>
    /\ UNCHANGED nonWorkerVars

\* the computation ends: with a result, which the worker writes, or
\* without one (the service failed, there is no HTML version, ...)
WkCompute(i) ==
    /\ wk_pc[i] \notin {"queued", "done"}
    /\ wk_busy[i]
    /\ \E ok \in BOOLEAN :
          /\ wk_pc' = [wk_pc EXCEPT ![i] = StageAfter(@, ok)]
          /\ IF ok
             THEN /\ disk' = disk \cup StageWrites(wk_pc[i], wk_ids[i])
                  /\ wk_writes' =
                        [wk_writes EXCEPT
                            ![i] = @ \cup StageWrites(wk_pc[i], wk_ids[i])]
             ELSE UNCHANGED <<disk, wk_writes>>
    /\ wk_busy' = [wk_busy EXCEPT ![i] = FALSE]
    /\ UNCHANGED wk_ids
    /\ UNCHANGED nonWorkerVars

WkStartSome == \E i \in WkIndices : WkStart(i)
WkTestSome == \E i \in WkIndices : WkTest(i)
WkComputeSome == \E i \in WkIndices : WkCompute(i)

NextWorkers == WkStartSome \/ WkTestSome \/ WkComputeSome

SpecWorkers == InitWorkers /\ [][NextWorkers]_vars

\* C14: during run, whatever the listing and the interleaving of the
\* workers, no two workers ever write the same cache file path.
C14_WritesDisjoint ==
    \A i, j \in WkIndices :
        i # j => wk_writes[i] \cap wk_writes[j] = {}


-----------------------------------------------------------------------------
\* Further properties of the cached stages (checked under SpecCache).

\* the latest call computed nothing: no remote request, no file written
NothingComputed ==
    /\ last_call.remote_calls = 0
    /\ ~last_call.written

\* the latest call went to compute: it made a remote request, wrote its
\* file, or raised on the way
Recomputed ==
    \/ last_call.remote_calls > 0
    \/ last_call.written
    \/ last_call.result = NotReturned

\* C15 as stated: for every cached stage, download_pdf included, whenever
\* the stage's file exists at the start of a call, whatever its contents
\* or size, the stage computes nothing and makes no remote call; whenever
\* it does not exist, the stage recomputes.  download_pdf downloads again
\* over a file of 1024 bytes or less.
C15_PresenceIsSoleTest ==
    last_call # NoCall =>
        /\ last_call.file.exists => NothingComputed
        /\ ~last_call.file.exists => Recomputed

\* C15, amended: for fetch_daily_papers, parse_arxiv_html, parse_pdf,
\* translate_paper_content and generate_tags, whenever the stage's file
\* exists at the start of a call, whatever its contents, the stage
\* computes nothing and makes no remote call, and whenever it does not
\* exist the stage recomputes; download_pdf computes nothing when its file
\* exists and is larger than 1024 bytes, and downloads otherwise.
C15_PresenceOrSize ==
    last_call # NoCall =>
        IF last_call.stage = "download_pdf"
        THEN /\ last_call.file.exists /\ last_call.file.content.big
                    => NothingComputed
             /\ ~(last_call.file.exists /\ last_call.file.content.big)
                    => last_call.remote_calls > 0
        ELSE /\ last_call.file.exists => NothingComputed
             /\ ~last_call.file.exists => Recomputed

\* generate_tags was called over a truncated tags.json: it made no request
\* and wrote nothing; json.loads raised
C15_Witness ==
    /\ last_call # NoCall
    /\ last_call.stage = "generate_tags"
    /\ last_call.file = File(Truncated)
    /\ last_call.remote_calls = 0
    /\ ~last_call.written
    /\ last_call.result = NotReturned


-----------------------------------------------------------------------------
\* The batching loop of translate_paper_content (translate.py:48-74).
\* An element is its type and the length of its text.

\* the most elements of a paper
MaxUnits == 3

BATCH_LIMIT == 3000

\* the text lengths tried: around the limit, its half and nothing
TextLens == {0, 1, 1500, 2999, 3001}

ElementSamples ==
    {[type |-> "text", len |-> n] : n \in TextLens}
        \cup {[type |-> "image", len |-> 0], [type |-> "table", len |-> 1]}

\* text_indices: the indices of the translatable elements, in order
TextIndices(elements) ==
    LET T[i \in 0..Len(elements)] ==
            IF i = 0 THEN <<>>
            ELSE IF elements[i].type \in translatable_types
                 THEN Append(T[i - 1], i)
                 ELSE T[i - 1]
    IN  T[Len(elements)]

\* line 67: the batch is flushed before the next text is added
ShouldFlushAfterOverflow(chars, text_len, batch) ==
    chars > BATCH_LIMIT /\ batch # <<>>

ShouldFlush(chars, text_len, batch) ==
    chars + text_len > BATCH_LIMIT /\ batch # <<>>

InitBatch ==
    /\ tr_pc = "loop"
    /\ tr_elements \in SeqsUpTo(ElementSamples, MaxUnits)
    /\ tr_i = 0
    /\ batch_indices = <<>>
    /\ batch_chars = 0
    /\ tr_batches = <<>>
    /\ PdfIdle
    /\ RunIdle
    /\ FigIdle
    /\ CacheIdle
    /\ HtmlIdle
    /\ CropIdle
    /\ WorkersIdle

\* lines 65-72: one pass of `for i in text_indices`; the flush sends the
\* batch to _translate_batch, which returns or raises
TrVisit ==
    /\ tr_pc = "loop"
    /\ tr_i < Len(TextIndices(tr_elements))
    /\ LET i        == TextIndices(tr_elements)[tr_i + 1]
           text_len == tr_elements[i].len
       IN  IF ShouldFlush(batch_chars, text_len, batch_indices)
           THEN /\ tr_batches' = Append(tr_batches, batch_indices)
                /\ \E ok \in BOOLEAN :
                      IF ok
                      THEN /\ batch_indices' = <<i>>
                           /\ batch_chars' = text_len
                           /\ tr_i' = tr_i + 1
                           /\ tr_pc' = "loop"
                      ELSE /\ tr_pc' = "raised"
                           /\ UNCHANGED <<batch_indices, batch_chars, tr_i>>
           ELSE /\ batch_indices' = Append(batch_indices, i)
                /\ batch_chars' = batch_chars + text_len
                /\ tr_i' = tr_i + 1
                /\ tr_pc' = "loop"
                /\ UNCHANGED tr_batches
    /\ UNCHANGED tr_elements
    /\ UNCHANGED nonBatchVars

\* line 74: the flush after the loop
TrLastFlush ==
    /\ tr_pc = "loop"
    /\ tr_i = Len(TextIndices(tr_elements))
    /\ IF batch_indices = <<>>
       THEN /\ tr_pc' = "done"
            /\ UNCHANGED tr_batches
       ELSE /\ tr_batches' = Append(tr_batches, batch_indices)
            /\ \E ok \in BOOLEAN : tr_pc' = IF ok THEN "done" ELSE "raised"
    /\ UNCHANGED <<tr_elements, tr_i, batch_indices, batch_chars>>
    /\ UNCHANGED nonBatchVars

NextBatch == TrVisit \/ TrLastFlush

SpecBatch == InitBatch /\ [][NextBatch]_vars

\* the characters of a batch
BatchChars(batch) ==
    LET S[k \in 0..Len(batch)] ==
            IF k = 0 THEN 0 ELSE S[k - 1] + tr_elements[batch[k]].len
    IN  S[Len(batch)]

\* the batches sent, one after the other
AllBatched ==
    LET C[k \in 0..Len(tr_batches)] ==
            IF k = 0 THEN <<>> ELSE C[k - 1] \o tr_batches[k]
    IN  C[Len(tr_batches)]

\* C16: no batch sent to the translation service has more characters than
\* the limit of 3000 unless it is a single unit that alone exceeds it, and
\* when the loop has completed the batches in order hold every
\* translatable unit exactly once, in the original order.
C16_BatchesWithinLimitAndComplete ==
    /\ \A k \in 1..Len(tr_batches) :
          /\ tr_batches[k] # <<>>
          /\ BatchChars(tr_batches[k]) > BATCH_LIMIT
                => Len(tr_batches[k]) = 1
    /\ tr_pc = "done" => AllBatched = TextIndices(tr_elements)

\* two texts of 1500 characters went in one batch and a text of 3001
\* characters alone in the next
C16_Witness ==
    /\ tr_pc = "done"
    /\ tr_elements = <<[type |-> "text", len |-> 1500],
                       [type |-> "text", len |-> 1500],
                       [type |-> "text", len |-> 3001]>>
    /\ tr_batches = <<<<1, 2>>, <<3>>>>


-----------------------------------------------------------------------------
\* _crop_image (parse_pdf.py:35-47) on integer boxes.  Python integers
\* have no width, so nothing wraps.

\* the largest side of a page image, in pixels
MaxSide == 2

\* the coordinates tried: from left of the image to right of it
Coords == (0 - 1)..(MaxSide + 1)

FullPage == [full |-> TRUE]

Cropped(x1, y1, x2, y2) == [full |-> FALSE, box |-> <<x1, y1, x2, y2>>]

\* line 42
IsDegenerateStrict(x1, y1, x2, y2) == x2 < x1 \/ y2 < y1

IsDegenerate(x1, y1, x2, y2) == x2 <= x1 \/ y2 <= y1

\* lines 37-44: what is returned, the page as it is or the crop of a box
CropImage(bbox, size) ==
    LET w  == size[1]
        h  == size[2]
        x1 == Max(0, bbox[1])
        y1 == Max(0, bbox[2])
        x2 == Min(w, bbox[3])
        y2 == Min(h, bbox[4])
    IN  IF IsDegenerate(x1, y1, x2, y2) THEN FullPage
        ELSE Cropped(x1, y1, x2, y2)

InitCrop ==
    /\ crop_pc = "call"
    /\ crop_bbox \in [1..4 -> Coords]
    /\ crop_size \in [1..2 -> 1..MaxSide]
    /\ crop_box = <<>>
    /\ PdfIdle
    /\ RunIdle
    /\ FigIdle
    /\ CacheIdle
    /\ HtmlIdle
    /\ BatchIdle
    /\ WorkersIdle

CallCropImage ==
    /\ crop_pc = "call"
    /\ crop_box' = CropImage(crop_bbox, crop_size)
    /\ crop_pc' = "done"
    /\ UNCHANGED <<crop_bbox, crop_size>>
    /\ UNCHANGED nonCropVars

NextCrop == CallCropImage

SpecCrop == InitCrop /\ [][NextCrop]_vars

\* a coordinate clamped to [0, limit]
Clamp(v, limit) == IF v < 0 THEN 0 ELSE IF v > limit THEN limit ELSE v

\* C17: for every integer box and every page image of size w x h, the box
\* is clamped to [0, w] x [0, h]; when the clamped box has x2 <= x1 or
\* y2 <= y1 the full page is returned; otherwise the rectangle cropped is
\* the clamped box, lies within the image and has positive width and
\* height.  No box makes the call fail.
C17_CropClampedOrFullPage ==
    crop_pc = "done" =>
        LET w  == crop_size[1]
            h  == crop_size[2]
            x1 == Clamp(crop_bbox[1], w)
            y1 == Clamp(crop_bbox[2], h)
            x2 == Clamp(crop_bbox[3], w)
            y2 == Clamp(crop_bbox[4], h)
        IN  IF x2 <= x1 \/ y2 <= y1
            THEN crop_box = FullPage
            ELSE /\ crop_box = [full |-> FALSE, box |-> <<x1, y1, x2, y2>>]
                 /\ 0 <= x1 /\ x1 < x2 /\ x2 <= w
                 /\ 0 <= y1 /\ y1 < y2 /\ y2 <= h

\* a box that starts right of the image: the full page came back
C17_Witness ==
    /\ crop_pc = "done"
    /\ crop_bbox[1] > crop_size[1]
    /\ crop_bbox[3] > crop_bbox[1]
    /\ crop_bbox[4] > crop_bbox[2]
    /\ crop_box = FullPage


-----------------------------------------------------------------------------
\* A further property of _insert_pdf_figures_inline (checked under SpecFig).

\* C18: no figure is lost: whatever the filenames of the figure list
\* (page-scoped names and two files sharing one number included) and
\* whatever the content, each file of the list is referenced exactly once
\* in the output, inline before a caption or in the trailing gallery.
C18_NoFigureLost ==
    fig_pc = "done" =>
        \A k \in 1..Len(figures) :
            Cardinality(InlineOf(figures[k].name)
                           \cup InGalleryOf(figures[k].name)) = 1


-----------------------------------------------------------------------------
\* run to its end: the pool runs every task to its return or its raise,
\* as_completed yields every finished future, and run goes on after it.
SpecRunLive == InitRun /\ [][NextRun]_vars /\ WF_vars(NextRun)

\* C19: in every execution of run with a non-empty paper list in which
\* every task returns or raises, build_site is called exactly once and
\* only after every index has its entry; send_daily_digest is attempted
\* exactly once and only after build_site has returned; and an exception
\* from send_daily_digest does not keep run from completing normally.
C19_BuildThenEmailOnce ==
    /\ [](built_with # NotCalled =>
             /\ collected = Indices
             /\ Len(built_with.args) = Len(papers))
    /\ [](mailed_with # NotCalled =>
             /\ built_with # NotCalled
             /\ run_error = NoKey)
    /\ [](email_failed => run_pc = "done" /\ run_error = NoKey)
    /\ [][built_with # NotCalled => built_with' = built_with]_vars
    /\ [][mailed_with # NotCalled => mailed_with' = mailed_with]_vars
    /\ (run_pc = "pool") ~>
          (/\ built_with # NotCalled
           /\ mailed_with # NotCalled
           /\ run_pc = "done")

=============================================================================
